---- MODULE Spec2Model ----
(***************************************************************************)
(* Model of long-audio-transcribe/app.py: the two transcription handlers   *)
(* (/transcribe and /transcribe_url), split_audio, transcribe_chunk and    *)
(* cleanup_temp_files, over an explicit model of the upload folder.        *)
(*                                                                         *)
(* Strings the code inspects character by character (file names, the      *)
(* chunk_duration form value, transcribed text) are sequences of one-      *)
(* character strings.  Audio lengths are in milliseconds, as pydub's       *)
(* len(audio) is.                                                          *)
(***************************************************************************)
EXTENDS Integers, Sequences, FiniteSets, TLC

VARIABLES
    request,    \* per run: the HTTP request being handled
    pc,         \* per run: position in the handler
    loc,        \* per run: the handler's (and split_audio's) local variables
    fs,         \* the upload folder: path -> file
    nextTmp,    \* tempfile's source of unused names
    resp,       \* per run: the response returned
    hist        \* per run: history of what the run did (calls, faults, files)

vars == <<request, pc, loc, fs, nextTmp, resp, hist>>

Runs == {1, 2}

(***************************************************************************)
(* Bounds of the model                                                     *)
(***************************************************************************)
StepMs == 500
MaxSteps == 5
ExampleLenMs == 95000

(***************************************************************************)
(* Program constants                                                       *)
(***************************************************************************)
DefaultChunkDuration == 30
MsPerSecond == 1000

ALLOWED_EXTENSIONS ==
    { <<"w","a","v">>, <<"m","p","3">>, <<"m","4","a">>,
      <<"f","l","a","c">>, <<"o","g","g">> }

(***************************************************************************)
(* str helpers                                                             *)
(***************************************************************************)
LowerChar(c) ==
    CASE c = "M" -> "m"
      [] c = "P" -> "p"
      [] c = "W" -> "w"
      [] c = "A" -> "a"
      [] c = "V" -> "v"
      [] OTHER -> c

lower(s) == [j \in 1..Len(s) |-> LowerChar(s[j])]

Contains(s, c) == \E j \in 1..Len(s) : s[j] = c

\* index of the last occurrence of c in s (0 when there is none)
LastIndex(s, c) ==
    IF Contains(s, c)
    THEN CHOOSE j \in 1..Len(s) :
            s[j] = c /\ \A m \in (j+1)..Len(s) : s[m] # c
    ELSE 0

\* filename.rsplit('.', 1)[1]
AfterLastDot(s) == SubSeq(s, LastIndex(s, ".") + 1, Len(s))

allowed_file(filename) ==
    /\ Contains(filename, ".")
    /\ lower(AfterLastDot(filename)) \in ALLOWED_EXTENSIONS

Whitespace == {" ", "\n", "\t"}

RECURSIVE lstrip(_, _)
lstrip(s, cs) ==
    IF s # <<>> /\ Head(s) \in cs THEN lstrip(Tail(s), cs) ELSE s

RECURSIVE rstrip(_, _)
rstrip(s, cs) ==
    IF s # <<>> /\ s[Len(s)] \in cs
    THEN rstrip(SubSeq(s, 1, Len(s) - 1), cs)
    ELSE s

strip(s) == rstrip(lstrip(s, Whitespace), Whitespace)

\* werkzeug's secure_filename on the characters used here: path separators
\* become "_", and leading and trailing "." and "_" are stripped
secure_filename(filename) ==
    LET flat == [j \in 1..Len(filename) |->
                    IF filename[j] = "/" THEN "_" ELSE filename[j]]
    IN  rstrip(lstrip(flat, {".", "_"}), {".", "_"})

(***************************************************************************)
(* int(): optional sign, then one or more decimal digits                   *)
(***************************************************************************)
Digits == {"0", "1", "2", "3", "4", "5", "6", "7", "8", "9"}

DigitVal(c) ==
    CASE c = "0" -> 0 [] c = "1" -> 1 [] c = "2" -> 2 [] c = "3" -> 3
      [] c = "4" -> 4 [] c = "5" -> 5 [] c = "6" -> 6 [] c = "7" -> 7
      [] c = "8" -> 8 [] c = "9" -> 9

RECURSIVE DigitsVal(_)
DigitsVal(s) ==
    IF s = <<>> THEN 0
    ELSE 10 * DigitsVal(SubSeq(s, 1, Len(s) - 1)) + DigitVal(s[Len(s)])

\* int(s): [ok |-> FALSE] stands for ValueError
int(s) ==
    LET t == strip(s)
        signed == t # <<>> /\ Head(t) \in {"-", "+"}
        body == IF signed THEN Tail(t) ELSE t
    IN  IF body # <<>> /\ \A j \in 1..Len(body) : body[j] \in Digits
        THEN [ok |-> TRUE,
              val |-> IF signed /\ Head(t) = "-"
                      THEN 0 - DigitsVal(body) ELSE DigitsVal(body)]
        ELSE [ok |-> FALSE, val |-> 0]

(***************************************************************************)
(* The upload folder                                                       *)
(***************************************************************************)
\* os.path.join(UPLOAD_FOLDER, filename)
UploadPath(filename) == [name |-> filename, tmp |-> 0]

\* the name tempfile.NamedTemporaryFile(suffix='.wav', dir=UPLOAD_FOLDER) picks
TempPath(n) == [name |-> <<"t","m","p">>, tmp |-> n]

exists(f, p) == p \in DOMAIN f

WriteFile(f, p, d) ==
    [q \in DOMAIN f \cup {p} |-> IF q = p THEN d ELSE f[q]]

unlink(f, p) == [q \in DOMAIN f \ {p} |-> f[q]]

\* decodable: AudioSegment.from_file succeeds on it; len: its length in ms
File(dec, len, r) == [dec |-> dec, len |-> len, by |-> r]

\* what is on disk when a write stopped half way
PartialFile(r) == File(FALSE, 0, r)

RECURSIVE cleanup_temp_files(_, _)
cleanup_temp_files(f, temp_files) ==
    IF temp_files = <<>> THEN f
    ELSE cleanup_temp_files(
            IF exists(f, Head(temp_files)) THEN unlink(f, Head(temp_files)) ELSE f,
            Tail(temp_files))

\* the paths cleanup_temp_files unlinks, in order
RECURSIVE CleanupUnlinks(_, _)
CleanupUnlinks(f, temp_files) ==
    IF temp_files = <<>> THEN <<>>
    ELSE IF exists(f, Head(temp_files))
         THEN <<Head(temp_files)>> \o CleanupUnlinks(unlink(f, Head(temp_files)), Tail(temp_files))
         ELSE CleanupUnlinks(f, Tail(temp_files))

(***************************************************************************)
(* Python values that may be a str or None                                 *)
(***************************************************************************)
PyStr(s) == [type |-> "str", s |-> s]
PyNone == [type |-> "NoneType", s |-> <<>>]

(***************************************************************************)
(* What the Whisper endpoint may answer to one requests.post               *)
(***************************************************************************)
Texts == { <<"a">>, <<" ", "b">>, <<"c", " ">> }

\* raised: requests.post raised (timeout, connection refused)
Answer(raised, status_code, has_text, text) ==
    [raised |-> raised, status_code |-> status_code,
     has_text |-> has_text, text |-> text]

Answers ==
    { Answer(TRUE, 0, FALSE, PyNone),          \* timeout or network failure
      Answer(FALSE, 500, FALSE, PyNone),       \* non-200 response
      Answer(FALSE, 200, FALSE, PyNone),       \* 200, JSON without "text"
      Answer(FALSE, 200, TRUE, PyNone) }       \* 200, {"text": null}
    \cup { Answer(FALSE, 200, TRUE, PyStr(t)) : t \in Texts }

\* transcribe_chunk: the value it returns for the segment file at path
transcribe_chunk(f, path, ans) ==
    IF ~exists(f, path) THEN PyStr(<<>>)       \* open() raised, caught
    ELSE IF ans.raised THEN PyStr(<<>>)
    ELSE IF ans.status_code = 200
         THEN IF ans.has_text THEN ans.text ELSE PyStr(<<>>)
         ELSE PyStr(<<>>)

(***************************************************************************)
(* split_audio's arithmetic                                                *)
(***************************************************************************)
\* a loop bound that drops a short last window
InRangeDropTail(i, stop, step) ==
    IF step > 0 THEN i + step <= stop ELSE i > stop

\* i in range(0, stop, step), for step # 0
InRange(i, stop, step) == IF step > 0 THEN i < stop ELSE i > stop

\* len(audio[i:i + chunk_duration_ms])
SliceLen(len, i, chunk_duration_ms) ==
    LET hi == IF i + chunk_duration_ms < len THEN i + chunk_duration_ms ELSE len
    IN  IF hi > i THEN hi - i ELSE 0

\* one entry of the handler's segments list
Segment(i, text, chunk_duration) ==
    [segment_id |-> i + 1,
     text |-> text,
     start_time |-> i * chunk_duration,
     end_time |-> (i + 1) * chunk_duration]

\* len(audio) / 1000, kept as an exact fraction
Seconds(len) == [num |-> len, den |-> MsPerSecond]

(***************************************************************************)
(* Requests                                                                *)
(***************************************************************************)
FileNames ==
    { <<>>,
      <<"a", ".", "w", "a", "v">>,
      <<"/", "a", ".", "w", "a", "v">>,
      <<"b", ".", "M", "P", "3">>,
      <<"a", ".", "t", "x", "t">>,
      <<"w", "a", "v">> }

ChunkForms ==
    { <<"1">>, <<"2">>, <<"3", "0">>, <<"0">>, <<"-", "1">>, <<"a", "b", "c">> }

AudioLens == { n * StepMs : n \in 0..MaxSteps }

Request(entry, present, filename, has_cd, cd, dec, len) ==
    [entry |-> entry, present |-> present, filename |-> filename,
     has_cd |-> has_cd, cd |-> cd, dec |-> dec, len |-> len]

\* the payloads sent with a chunk_duration form: short audio with every form,
\* the long example only with 30-second chunks, and one undecodable payload
Payloads(has_cd, cd) ==
    { [dec |-> TRUE, len |-> n] : n \in AudioLens }
    \cup { [dec |-> FALSE, len |-> 0] }
    \cup (IF ~has_cd \/ cd = <<"3", "0">>
          THEN { [dec |-> TRUE, len |-> ExampleLenMs] } ELSE {})

Forms == { [has_cd |-> FALSE, cd |-> <<>>] }
         \cup { [has_cd |-> TRUE, cd |-> c] : c \in ChunkForms }

UploadRequests ==
    { Request("upload", FALSE, <<>>, FALSE, <<>>, FALSE, 0) }
    \cup UNION { UNION { { Request("upload", TRUE, fn, f.has_cd, f.cd, p.dec, p.len)
                            : p \in Payloads(f.has_cd, f.cd) }
                         : f \in Forms }
                 : fn \in FileNames }

UrlRequests ==
    { Request("url", FALSE, <<>>, FALSE, <<>>, FALSE, 0) }
    \cup UNION { { Request("url", TRUE, <<>>, f.has_cd, f.cd, p.dec, p.len)
                    : p \in Payloads(f.has_cd, f.cd) }
                 : f \in Forms }

Requests == UploadRequests \cup UrlRequests

\* request.form.get('chunk_duration', 30) / data.get('chunk_duration', 30)
ChunkDurationOf(req) ==
    IF req.has_cd THEN int(req.cd) ELSE [ok |-> TRUE, val |-> DefaultChunkDuration]

(***************************************************************************)
(* State                                                                   *)
(***************************************************************************)
NoPath == [name |-> <<>>, tmp |-> 0]

NoResp ==
    [status |-> 0, error |-> "", success |-> FALSE, text |-> <<>>,
     segments |-> <<>>, duration |-> Seconds(0), chunk_count |-> 0,
     chunk_duration |-> 0]

ErrorResp(status, error) == [NoResp EXCEPT !.status = status, !.error = error]

InitLoc ==
    [chunk_duration |-> 0, file_path |-> NoPath, audio |-> 0,
     chunk_duration_ms |-> 0, i |-> 0, split_temp_files |-> <<>>,
     has_temp_files |-> FALSE, temp_files |-> <<>>, k |-> 0,
     segments |-> <<>>, full_text |-> <<>>, total_duration |-> Seconds(0)]

InitHist ==
    [calls |-> <<>>, fault |-> "none", created |-> {}, unlinked |-> <<>>,
     staged |-> FALSE, read_deleted |-> FALSE, foreign |-> FALSE]

NoRequest == Request("none", FALSE, <<>>, FALSE, <<>>, FALSE, 0)

InitWith(reqs) ==
    /\ request = reqs
    /\ pc = [r \in Runs |-> IF reqs[r].entry = "none" THEN "idle" ELSE "validate"]
    /\ loc = [r \in Runs |-> InitLoc]
    /\ fs = << >>
    /\ nextTmp = 1
    /\ resp = [r \in Runs |-> NoResp]
    /\ hist = [r \in Runs |-> InitHist]

\* one request handled on its own
Init == \E q \in Requests : InitWith([r \in Runs |-> IF r = 1 THEN q ELSE NoRequest])

(***************************************************************************)
(* The handlers, one action per step.  Positions:                          *)
(*   validate, save | download, stage, staged, split, split_loop,          *)
(*   transcribe, cleanup, duration, finish, except                         *)
(* and, once the handler has returned: done (the success return),          *)
(* aborted (a return after the pipeline's try block was entered) and       *)
(* rejected (a return before it).                                          *)
(***************************************************************************)
Goto(r, l) == pc' = [pc EXCEPT ![r] = l]

Reply(r, l, response) ==
    /\ pc' = [pc EXCEPT ![r] = l]
    /\ resp' = [resp EXCEPT ![r] = response]

\* the file at p was written by another run
Foreign(f, p, r) == exists(f, p) /\ f[p].by # r

\* run r has unlinked p
Unlinked(r, p) == \E j \in 1..Len(hist[r].unlinked) : hist[r].unlinked[j] = p

\* /transcribe lines 149-160, /transcribe_url lines 235-241
Validate(r) ==
    LET req == request[r]
        cd == ChunkDurationOf(req)
        upload == req.entry = "upload"
    IN  /\ pc[r] = "validate"
        /\ IF ~req.present
           THEN Reply(r, "rejected",
                      ErrorResp(400, IF upload THEN "no file" ELSE "no audio_url"))
                /\ UNCHANGED loc
           ELSE IF upload /\ req.filename = <<>>
           THEN Reply(r, "rejected", ErrorResp(400, "no filename")) /\ UNCHANGED loc
           ELSE IF upload /\ ~allowed_file(req.filename)
           THEN Reply(r, "rejected", ErrorResp(400, "bad format")) /\ UNCHANGED loc
           ELSE IF ~cd.ok
           THEN \* int() raised ValueError: the outer except answers
                Reply(r, "rejected", ErrorResp(500, "server error")) /\ UNCHANGED loc
           ELSE /\ loc' = [loc EXCEPT ![r].chunk_duration = cd.val]
                /\ Goto(r, IF upload THEN "save" ELSE "download")
                /\ UNCHANGED resp
        /\ UNCHANGED <<request, fs, nextTmp, hist>>

\* /transcribe lines 163-165: file.save under the secured upload name
Save(r) ==
    /\ pc[r] = "save"
    /\ \E ok \in BOOLEAN :
        LET req == request[r]
            path == UploadPath(secure_filename(req.filename))
        IN  /\ loc' = [loc EXCEPT ![r].file_path = path]
            /\ fs' = WriteFile(fs, path,
                        IF ok THEN File(req.dec, req.len, r) ELSE PartialFile(r))
            /\ hist' = [hist EXCEPT
                    ![r].created = @ \cup {path},
                    ![r].staged = TRUE,
                    ![r].foreign = @ \/ Foreign(fs, path, r),
                    ![r].fault = IF ok THEN @ ELSE "save"]
            /\ IF ok THEN Goto(r, "staged") /\ UNCHANGED resp
               ELSE Reply(r, "rejected", ErrorResp(500, "server error"))
    /\ UNCHANGED <<request, nextTmp>>

\* /transcribe_url lines 246-247: requests.get and raise_for_status
Download(r) ==
    /\ pc[r] = "download"
    /\ \E ok \in BOOLEAN :
        IF ok THEN Goto(r, "stage") /\ UNCHANGED <<resp, hist>>
        ELSE /\ Reply(r, "rejected", ErrorResp(500, "server error"))
             /\ hist' = [hist EXCEPT ![r].fault = "download"]
    /\ UNCHANGED <<request, loc, fs, nextTmp>>

\* /transcribe_url lines 250-257: the body is written to a new temporary file
Stage(r) ==
    /\ pc[r] = "stage"
    /\ \E ok \in BOOLEAN :
        LET req == request[r]
            path == TempPath(nextTmp)
        IN  /\ nextTmp' = nextTmp + 1
            /\ loc' = [loc EXCEPT ![r].file_path = path]
            /\ fs' = WriteFile(fs, path,
                        IF ok THEN File(req.dec, req.len, r) ELSE PartialFile(r))
            /\ hist' = [hist EXCEPT
                    ![r].created = @ \cup {path},
                    ![r].staged = TRUE,
                    ![r].fault = IF ok THEN @ ELSE "stage"]
            /\ IF ok THEN Goto(r, "staged") /\ UNCHANGED resp
               ELSE Reply(r, "rejected", ErrorResp(500, "server error"))
    /\ UNCHANGED request

\* /transcribe line 167, /transcribe_url line 259: the source is staged and
\* the pipeline's try block is entered
Staged(r) ==
    /\ pc[r] = "staged"
    /\ Goto(r, "split")
    /\ UNCHANGED <<request, loc, fs, nextTmp, resp, hist>>

\* split_audio lines 50-56: decode the source
SplitLoad(r) ==
    LET p == loc[r].file_path
    IN  /\ pc[r] = "split"
        /\ IF exists(fs, p) /\ fs[p].dec
           THEN /\ loc' = [loc EXCEPT
                        ![r].audio = fs[p].len,
                        ![r].chunk_duration_ms = loc[r].chunk_duration * MsPerSecond,
                        ![r].split_temp_files = <<>>,
                        ![r].i = 0]
                /\ Goto(r, "split_loop")
           ELSE Goto(r, "except") /\ UNCHANGED loc
        /\ hist' = [hist EXCEPT
                ![r].foreign = @ \/ Foreign(fs, p, r),
                ![r].read_deleted = @ \/ Unlinked(r, p)]
        /\ UNCHANGED <<request, fs, nextTmp, resp>>

\* split_audio lines 58-75: one turn of the loop, or its return
SplitLoop(r) ==
    LET l == loc[r]
    IN  /\ pc[r] = "split_loop"
        /\ IF l.chunk_duration_ms = 0
           THEN \* range() arg 3 must not be zero
                Goto(r, "except") /\ UNCHANGED <<loc, fs, nextTmp, hist>>
           ELSE IF InRange(l.i, l.audio, l.chunk_duration_ms)
           THEN \E ok \in BOOLEAN :
                LET path == TempPath(nextTmp)
                    chunk == File(TRUE, SliceLen(l.audio, l.i, l.chunk_duration_ms), r)
                IN  /\ nextTmp' = nextTmp + 1
                    /\ fs' = WriteFile(fs, path, IF ok THEN chunk ELSE PartialFile(r))
                    /\ hist' = [hist EXCEPT
                            ![r].created = @ \cup {path},
                            ![r].fault = IF ok THEN @ ELSE "export"]
                    /\ IF ok
                       THEN /\ loc' = [loc EXCEPT
                                    ![r].split_temp_files = Append(@, path),
                                    ![r].i = @ + l.chunk_duration_ms]
                            /\ UNCHANGED pc
                       ELSE Goto(r, "except") /\ UNCHANGED loc
           ELSE \* return temp_files; the handler starts its own loop
                /\ loc' = [loc EXCEPT
                        ![r].temp_files = l.split_temp_files,
                        ![r].has_temp_files = TRUE,
                        ![r].segments = <<>>,
                        ![r].full_text = <<>>,
                        ![r].k = 0]
                /\ Goto(r, IF l.split_temp_files = <<>> THEN "cleanup" ELSE "transcribe")
                /\ UNCHANGED <<fs, nextTmp, hist>>
        /\ UNCHANGED <<request, resp>>

\* handler lines 177-188 / 269-280: transcribe one segment and record it
TranscribeStep(r) ==
    LET l == loc[r]
    IN  /\ pc[r] = "transcribe"
        /\ l.k < Len(l.temp_files)
        /\ \E ans \in Answers :
            LET temp_file == l.temp_files[l.k + 1]
                text == transcribe_chunk(fs, temp_file, ans)
                seg == Segment(l.k, text, l.chunk_duration)
            IN  /\ hist' = [hist EXCEPT
                        ![r].calls = Append(@, [seg |-> l.k + 1, path |-> temp_file,
                                                 ans |-> ans]),
                        ![r].foreign = @ \/ Foreign(fs, temp_file, r)]
                /\ IF text.type = "str"
                   THEN /\ loc' = [loc EXCEPT
                                ![r].segments = Append(@, seg),
                                ![r].full_text = @ \o text.s \o <<" ">>,
                                ![r].k = @ + 1]
                        /\ Goto(r, IF l.k + 1 = Len(l.temp_files)
                                   THEN "cleanup" ELSE "transcribe")
                   ELSE \* text + " " raised TypeError
                        /\ loc' = [loc EXCEPT ![r].segments = Append(@, seg)]
                        /\ Goto(r, "except")
        /\ UNCHANGED <<request, fs, nextTmp, resp>>

\* jsonify of the segments list
JsonSegments(segments) ==
    [j \in 1..Len(segments) |->
        [segment_id |-> segments[j].segment_id,
         text |-> segments[j].text.s,
         start_time |-> segments[j].start_time,
         end_time |-> segments[j].end_time]]

\* a success body whose text is the running buffer as it stands
ResultUntrimmed(l) ==
    [status |-> 200, error |-> "", success |-> TRUE,
     text |-> l.full_text,
     segments |-> JsonSegments(l.segments),
     duration |-> l.total_duration,
     chunk_count |-> Len(l.segments),
     chunk_duration |-> l.chunk_duration]

\* the success body, lines 200-207 / 290-297
Result(l) ==
    [status |-> 200, error |-> "", success |-> TRUE,
     text |-> strip(l.full_text),
     segments |-> JsonSegments(l.segments),
     duration |-> l.total_duration,
     chunk_count |-> Len(l.segments),
     chunk_duration |-> l.chunk_duration]

\* line 191 / lines 283-284: the segment files are removed; /transcribe_url
\* removes the downloaded source here as well
Cleanup(r) ==
    LET l == loc[r]
        p == l.file_path
        f1 == cleanup_temp_files(fs, l.temp_files)
        gone == CleanupUnlinks(fs, l.temp_files)
        url == request[r].entry = "url"
    IN  /\ pc[r] = "cleanup"
        /\ IF url /\ exists(f1, p)
           THEN /\ fs' = unlink(f1, p)
                /\ hist' = [hist EXCEPT
                        ![r].unlinked = @ \o gone \o <<p>>,
                        ![r].foreign = @ \/ Foreign(fs, p, r)
                                         \/ \E j \in 1..Len(gone) : Foreign(fs, gone[j], r)]
                /\ Goto(r, "duration")
           ELSE /\ fs' = f1
                /\ hist' = [hist EXCEPT
                        ![r].unlinked = @ \o gone,
                        ![r].foreign = @ \/ \E j \in 1..Len(gone) : Foreign(fs, gone[j], r)]
                /\ Goto(r, IF url THEN "except" ELSE "duration")
        /\ UNCHANGED <<request, loc, nextTmp, resp>>

\* lines 194-195 / 287-288: the source is decoded again for its length
Duration(r) ==
    LET p == loc[r].file_path
    IN  /\ pc[r] = "duration"
        /\ \E ok \in BOOLEAN :
            IF exists(fs, p) /\ fs[p].dec
            THEN /\ hist' = [hist EXCEPT
                        ![r].foreign = @ \/ Foreign(fs, p, r),
                        ![r].fault = IF ok THEN @ ELSE "duration"]
                 /\ IF ok
                    THEN /\ loc' = [loc EXCEPT ![r].total_duration = Seconds(fs[p].len)]
                         /\ Goto(r, "finish")
                    ELSE Goto(r, "except") /\ UNCHANGED loc
            ELSE /\ hist' = [hist EXCEPT
                        ![r].foreign = @ \/ Foreign(fs, p, r),
                        ![r].read_deleted = @ \/ Unlinked(r, p)]
                 /\ Goto(r, "except")
                 /\ UNCHANGED loc
        /\ UNCHANGED <<request, fs, nextTmp, resp>>

\* lines 198-207 / 290-297: /transcribe removes the upload; both answer 200
Finish(r) ==
    LET l == loc[r]
        p == l.file_path
    IN  /\ pc[r] = "finish"
        /\ IF request[r].entry = "upload"
           THEN IF exists(fs, p)
                THEN /\ fs' = unlink(fs, p)
                     /\ hist' = [hist EXCEPT
                             ![r].unlinked = Append(@, p),
                             ![r].foreign = @ \/ Foreign(fs, p, r)]
                     /\ Reply(r, "done", Result(l))
                ELSE Goto(r, "except") /\ UNCHANGED <<fs, hist, resp>>
           ELSE Reply(r, "done", Result(l)) /\ UNCHANGED <<fs, hist>>
        /\ UNCHANGED <<request, loc, nextTmp>>

\* an error path that removes the segment files but forgets the source
ExceptKeepSource(r) ==
    LET l == loc[r]
        f1 == IF l.has_temp_files THEN cleanup_temp_files(fs, l.temp_files) ELSE fs
        gone == IF l.has_temp_files THEN CleanupUnlinks(fs, l.temp_files) ELSE <<>>
    IN  /\ pc[r] = "except"
        /\ fs' = f1
        /\ hist' = [hist EXCEPT ![r].unlinked = @ \o gone]
        /\ Reply(r, "aborted", ErrorResp(500, "transcribe failed"))
        /\ UNCHANGED <<request, loc, nextTmp>>

\* the inner except, lines 209-219 / 299-306; in /transcribe_url an unlink
\* that raises is answered by the outer except, lines 308-310
Except(r) ==
    LET l == loc[r]
        p == l.file_path
        f1 == IF l.has_temp_files THEN cleanup_temp_files(fs, l.temp_files) ELSE fs
        gone == IF l.has_temp_files THEN CleanupUnlinks(fs, l.temp_files) ELSE <<>>
    IN  /\ pc[r] = "except"
        /\ IF exists(f1, p)
           THEN /\ fs' = unlink(f1, p)
                /\ hist' = [hist EXCEPT
                        ![r].unlinked = @ \o gone \o <<p>>,
                        ![r].foreign = @ \/ Foreign(fs, p, r)]
                /\ Reply(r, "aborted", ErrorResp(500, "transcribe failed"))
           ELSE /\ fs' = f1
                /\ hist' = [hist EXCEPT ![r].unlinked = @ \o gone]
                /\ Reply(r, "aborted",
                         ErrorResp(500, IF request[r].entry = "upload"
                                        THEN "transcribe failed" ELSE "server error"))
        /\ UNCHANGED <<request, loc, nextTmp>>

Next ==
    \E r \in Runs :
        \/ Validate(r)
        \/ Save(r)
        \/ Download(r)
        \/ Stage(r)
        \/ Staged(r)
        \/ SplitLoad(r)
        \/ SplitLoop(r)
        \/ TranscribeStep(r)
        \/ Cleanup(r)
        \/ Duration(r)
        \/ Finish(r)
        \/ Except(r)

Spec == Init /\ [][Next]_vars

(***************************************************************************)
(* Two requests handled concurrently, sharing the upload folder            *)
(***************************************************************************)
WavA == <<"a", ".", "w", "a", "v">>

ConcRequests ==
    { Request("upload", TRUE, WavA, TRUE, <<"1">>, TRUE, StepMs),
      Request("upload", TRUE, <<"/">> \o WavA, TRUE, <<"1">>, TRUE, 2 * StepMs),
      Request("url", TRUE, <<>>, TRUE, <<"1">>, TRUE, StepMs) }

InitConc == \E q1, q2 \in ConcRequests : InitWith(<<q1, q2>>)

SpecConc == InitConc /\ [][Next]_vars

(***************************************************************************)
(* Vocabulary of the properties                                            *)
(***************************************************************************)
Returned(r) == pc[r] \in {"done", "aborted", "rejected"}

NoFault(r) == hist[r].fault = "none"

\* the transcription call failed: non-200, timeout or network failure
AnswerFailed(a) == a.raised \/ a.status_code # 200

\* the endpoint failed or answered 200 with a string (or no) text field
AnswerUsable(a) == AnswerFailed(a) \/ ~a.has_text \/ a.text.type = "str"

UsableAnswers(r) ==
    \A j \in 1..Len(hist[r].calls) : AnswerUsable(hist[r].calls[j].ans)

\* the segment files split_audio created for run r
SegmentFiles(r) == hist[r].created \ {loc[r].file_path}

NoDuplicates(s) == \A a, b \in 1..Len(s) : s[a] = s[b] => a = b

CeilDiv(a, b) == (a + b - 1) \div b

\* the pipeline state a handler position stands for
Phase(l) ==
    CASE l \in {"idle", "validate", "save", "download", "stage", "rejected"} -> "INGRESS"
      [] l = "staged" -> "STAGED"
      [] l \in {"split", "split_loop"} -> "SEGMENTING"
      [] l = "transcribe" -> "TRANSCRIBING"
      [] l \in {"cleanup", "duration", "finish"} -> "AGGREGATING"
      [] l = "done" -> "DONE"
      [] l \in {"except", "aborted"} -> "ABORTED"

(***************************************************************************)
(* C1: once a request has returned, every segment file split_audio created *)
(* for it is absent from the upload folder, on every exit path, and no     *)
(* segment file was deleted more than once.                                *)
(***************************************************************************)
C1_SegmentFilesRemoved ==
    \A r \in Runs :
        Returned(r) =>
            /\ \A p \in SegmentFiles(r) : ~exists(fs, p)
            /\ NoDuplicates(hist[r].unlinked)

(***************************************************************************)
(* C2: for either entry point, a run whose source is staged and decodable  *)
(* and whose segmentation raised no error ends in DONE with status 200 and *)
(* a success result whose duration is the source's duration in seconds.    *)
(* (Stated for runs with no I/O failure and usable endpoint answers.)      *)
(***************************************************************************)
C2_DecodableRunSucceeds ==
    \A r \in Runs :
        ( /\ Returned(r)
          /\ hist[r].staged
          /\ request[r].dec
          /\ loc[r].has_temp_files
          /\ NoFault(r)
          /\ UsableAnswers(r) )
        => /\ pc[r] = "done"
           /\ resp[r].status = 200
           /\ resp[r].success
           /\ resp[r].duration = Seconds(request[r].len)
           /\ resp[r].chunk_count = Len(resp[r].segments)
           /\ resp[r].chunk_duration = loc[r].chunk_duration

(***************************************************************************)
(* C3: two concurrent runs sharing the upload folder never write the same  *)
(* artifact path, never read, overwrite or delete an artifact the other    *)
(* created, and each answers as it would alone: an upload of decodable     *)
(* audio (chunk duration not 0) with usable endpoint answers ends in DONE  *)
(* with its own source's duration.  (Stated for runs with no I/O failure.) *)
(***************************************************************************)
C3_ConcurrentRunsIndependent ==
    (\A r \in Runs : NoFault(r)) =>
        /\ \A r1, r2 \in Runs :
                r1 # r2 => hist[r1].created \cap hist[r2].created = {}
        /\ \A r \in Runs : ~hist[r].foreign
        /\ \A r \in Runs :
                ( /\ Returned(r)
                  /\ request[r].entry = "upload"
                  /\ hist[r].staged
                  /\ request[r].dec
                  /\ loc[r].chunk_duration # 0
                  /\ UsableAnswers(r) )
                => /\ pc[r] = "done"
                   /\ resp[r].duration = Seconds(request[r].len)

(***************************************************************************)
(* C4: when the transcription call fails for any subset of the segments,   *)
(* each failed segment's result has empty text, every other segment's text *)
(* is what the endpoint returned for it, and the run ends in DONE with a   *)
(* success result; when all fail the full text is empty too.               *)
(***************************************************************************)
ExpectedText(a) ==
    IF AnswerFailed(a) \/ ~a.has_text THEN <<>> ELSE a.text.s

C4_FailedSegmentsAbsorbed ==
    \A r \in Runs :
        ( /\ Returned(r)
          /\ loc[r].has_temp_files
          /\ NoFault(r)
          /\ UsableAnswers(r)
          /\ Len(hist[r].calls) = Len(loc[r].temp_files)
          /\ \E j \in 1..Len(hist[r].calls) : AnswerFailed(hist[r].calls[j].ans) )
        => /\ pc[r] = "done"
           /\ resp[r].success
           /\ Len(resp[r].segments) = Len(hist[r].calls)
           /\ \A j \in 1..Len(hist[r].calls) :
                resp[r].segments[j].text = ExpectedText(hist[r].calls[j].ans)
           /\ (\A j \in 1..Len(hist[r].calls) : AnswerFailed(hist[r].calls[j].ans))
                => resp[r].text = <<>>

(***************************************************************************)
(* C5: after a request that staged a source artifact has returned, the     *)
(* staged source no longer exists in the upload folder, and the source was *)
(* never read after it had been deleted.  (Stated for runs with no I/O     *)
(* failure; the claim also covers a failure while saving or downloading.)  *)
(***************************************************************************)
C5_SourceRemovedNeverReadAfter ==
    \A r \in Runs :
        /\ (Returned(r) /\ hist[r].staged /\ NoFault(r))
                => ~exists(fs, loc[r].file_path)
        /\ NoFault(r) => ~hist[r].read_deleted

(***************************************************************************)
(* C6: a request rejected for malformed boundary input (missing file part, *)
(* empty filename, disallowed extension, missing audio_url, chunk_duration *)
(* not convertible to an integer) is answered with a 4xx status and an     *)
(* error body; nothing is staged, no segment is created and no             *)
(* transcription call is made for it.                                      *)
(***************************************************************************)
Malformed(req) ==
    \/ ~req.present
    \/ req.entry = "upload" /\ req.filename = <<>>
    \/ req.entry = "upload" /\ ~allowed_file(req.filename)
    \/ ~ChunkDurationOf(req).ok

C6_MalformedInputRejected4xx ==
    \A r \in Runs :
        (Returned(r) /\ Malformed(request[r]))
        => /\ resp[r].status \in 400..499
           /\ resp[r].error # ""
           /\ ~hist[r].staged
           /\ hist[r].created = {}
           /\ hist[r].calls = <<>>

(***************************************************************************)
(* C7: a run follows STAGED -> SEGMENTING -> TRANSCRIBING -> AGGREGATING   *)
(* -> DONE: segmentation is complete before the first transcription call,  *)
(* each segment is transcribed exactly once in ascending index order,      *)
(* ABORTED is entered only from SEGMENTING or AGGREGATING and never from   *)
(* TRANSCRIBING whatever the endpoint answers, and a run that entered the  *)
(* pipeline ends in DONE or ABORTED.                                       *)
(***************************************************************************)
PhaseRank(ph) ==
    CASE ph = "INGRESS" -> 0 [] ph = "STAGED" -> 1 [] ph = "SEGMENTING" -> 2
      [] ph = "TRANSCRIBING" -> 3 [] ph = "AGGREGATING" -> 4
      [] ph = "DONE" -> 5 [] ph = "ABORTED" -> 5

C7_Step(r) ==
    LET before == Phase(pc[r])
        after == Phase(pc'[r])
    IN  /\ PhaseRank(before) <= PhaseRank(after)
        /\ (after = "ABORTED" /\ before # "ABORTED")
                => before \in {"SEGMENTING", "AGGREGATING"}
        /\ (after = "DONE" /\ before # "DONE")
                => /\ before = "AGGREGATING"
                   /\ Len(hist'[r].calls) = Len(loc'[r].temp_files)
        /\ hist'[r].calls # hist[r].calls
                => /\ before = "TRANSCRIBING"
                   /\ loc[r].has_temp_files
                   /\ Len(hist'[r].calls) = Len(hist[r].calls) + 1
                   /\ hist'[r].calls[Len(hist'[r].calls)].seg = Len(hist'[r].calls)
                   /\ hist'[r].calls[Len(hist'[r].calls)].path
                        = loc[r].temp_files[Len(hist'[r].calls)]

C7_PipelineStateMachine == [][\A r \in Runs : C7_Step(r)]_vars

RECURSIVE JoinTexts(_)
JoinTexts(segs) ==
    IF segs = <<>> THEN <<>>
    ELSE IF Len(segs) = 1 THEN segs[1].text
    ELSE segs[1].text \o <<" ">> \o JoinTexts(Tail(segs))

\* s without its leading and trailing whitespace
Trimmed(s) ==
    LET solid == { j \in 1..Len(s) : s[j] \notin Whitespace }
    IN  IF solid = {} THEN <<>>
        ELSE SubSeq(s, CHOOSE a \in solid : \A b \in solid : a <= b,
                       CHOOSE a \in solid : \A b \in solid : a >= b)

C9_TextIsJoinedSegments ==
    \A r \in Runs :
        pc[r] = "done" =>
            /\ \A j \in 1..Len(resp[r].segments) : resp[r].segments[j].segment_id = j
            /\ resp[r].text = Trimmed(JoinTexts(resp[r].segments))

C9_Witness ==
    \E r \in Runs :
        /\ pc[r] = "done"
        /\ Len(resp[r].segments) = 3
        /\ resp[r].segments[1].text = <<" ", "b">>
        /\ resp[r].segments[2].text = <<>>
        /\ resp[r].segments[3].text = <<"c", " ">>
        /\ resp[r].text = <<"b", " ", " ", "c">>

(***************************************************************************)
(* C10: when the staged source cannot be decoded as audio, the run aborts  *)
(* with an error response, no transcription call is attempted, no segment  *)
(* result is produced, and neither segment files nor the staged source     *)
(* remain in the upload folder afterwards.                                 *)
(***************************************************************************)
Undecodable(r) ==
    /\ hist[r].staged
    /\ hist[r].fault \notin {"save", "stage"}
    /\ ~request[r].dec

C10_UndecodableSourceAborts ==
    \A r \in Runs :
        Undecodable(r) =>
            /\ hist[r].calls = <<>>
            /\ loc[r].segments = <<>>
            /\ pc[r] # "done"
            /\ Returned(r) =>
                /\ pc[r] = "aborted"
                /\ resp[r].status = 500
                /\ resp[r].error # ""
                /\ ~resp[r].success
                /\ hist[r].created \cap DOMAIN fs = {}

C10_Witness ==
    \E r \in Runs :
        /\ Undecodable(r)
        /\ pc[r] = "aborted"
        /\ hist[r].created # {}
        /\ loc[r].file_path \in hist[r].created
        /\ DOMAIN fs = {}

(***************************************************************************)
(* C11: for a chunk_duration that converts to an integer <= 0, no          *)
(* transcription call is made and no artifact remains after the request;   *)
(* chunk_duration = 0 aborts the run with a 500 response, and a negative   *)
(* chunk_duration yields a success response with zero segments,            *)
(* chunk_count 0 and empty text.  (Stated for a staged, decodable source   *)
(* and no I/O failure.)                                                    *)
(***************************************************************************)
NonPositiveChunk(r) ==
    /\ ChunkDurationOf(request[r]).ok
    /\ ChunkDurationOf(request[r]).val <= 0
    /\ hist[r].staged
    /\ request[r].dec
    /\ NoFault(r)

C11_NonPositiveChunkDuration ==
    \A r \in Runs :
        NonPositiveChunk(r) =>
            /\ hist[r].calls = <<>>
            /\ Returned(r) =>
                /\ hist[r].created \cap DOMAIN fs = {}
                /\ ChunkDurationOf(request[r]).val = 0 =>
                    /\ pc[r] = "aborted"
                    /\ resp[r].status = 500
                    /\ resp[r].error # ""
                /\ ChunkDurationOf(request[r]).val < 0 =>
                    /\ pc[r] = "done"
                    /\ resp[r].status = 200
                    /\ resp[r].success
                    /\ resp[r].segments = <<>>
                    /\ resp[r].chunk_count = 0
                    /\ resp[r].text = <<>>

====
